---- MODULE Spec2Model ----
(***************************************************************************)
(* Model of backend/app/main.py of aspath-frontend: the startup handler    *)
(* that wipes and rebuilds the redisbeat schedule from aspath.toml, and    *)
(* the read-only route-collector / snapshot / route handlers.              *)
(***************************************************************************)
EXTENDS Integers, Sequences, FiniteSets, TLC

\* ------------------------------------------------------------------ bounds
MaxRuns == 2
MaxSnapshots == 2
MaxTime == 2
TicksPerDay == 2

\* --------------------------------------------------- schedule: input sets
GrabberNames == {"AMS-IX", "DE-CIX"}
Hours == {2, 3}
Minutes == {0, 15}

\* aspath_config["grabbers"]: grabber -> {hour, minutes}
ConfigSet == UNION {[D -> [hour : Hours, minutes : Minutes]] : D \in SUBSET GrabberNames}

\* the configuration of the documented example
ExampleConfig == [g \in GrabberNames |->
  IF g = "AMS-IX" THEN [hour |-> 2, minutes |-> 0] ELSE [hour |-> 3, minutes |-> 15]]

\* entries a previous boot (possibly with another configuration) may have left
PriorEntries ==
  { [name |-> "grab-AMS-IX", hour |-> 2, minute |-> 0,  task |-> "worker.grab_and_ingest", args |-> <<"AMS-IX">>],
    [name |-> "grab-AMS-IX", hour |-> 3, minute |-> 15, task |-> "worker.grab_and_ingest", args |-> <<"AMS-IX">>],
    [name |-> "grab-DE-CIX", hour |-> 3, minute |-> 15, task |-> "worker.grab_and_ingest", args |-> <<"DE-CIX">>],
    [name |-> "grab-LINX",   hour |-> 2, minute |-> 15, task |-> "worker.grab_and_ingest", args |-> <<"LINX">>] }

VARIABLES
  registry,       \* the entries held by the RedisScheduler store
  config,         \* contents of configuration/aspath.toml ["grabbers"]
  pc,             \* position of startup()
  tasks,          \* the list returned by scheduler.list() at line 30, not yet removed
  pending,        \* grabbers of the loop at line 39 not yet added
  logged,         \* entries logged by the loop at line 44
  schedulerList,  \* last response of GET /scheduler/
  runs,           \* number of process starts so far
  failedAt,       \* the call of startup() that raised, "none" otherwise
  prior,          \* registry contents found by the first boot
  firstFinal,     \* registry when startup() first ran to completion
  completions     \* number of times startup() ran to completion

schedVars == <<registry, config, pc, tasks, pending, logged, schedulerList, runs,
               failedAt, prior, firstFinal, completions>>

VARIABLES
  routing_snapshots,  \* table routing_snapshots
  ip_routes,          \* table ip_routes
  op,                 \* the handler serving the request in flight, "idle" if none
  rpc,                \* position of that handler
  collector_name,     \* path parameter
  snapshot_id,        \* path parameter
  route_collector_id, \* local of the handler
  snapshot,           \* local of the handler: <<>> or <<row>>
  ixp_results,        \* exchange points the loop at line 60 has not visited yet
  exchange_points,    \* local of exchange_points_index
  queried,            \* tables queried so far by the request in flight
  resp                \* the response sent by the last step, if it sent one

dbVars == <<routing_snapshots, ip_routes>>
reqVars == <<op, rpc, collector_name, snapshot_id, route_collector_id, snapshot,
             ixp_results, exchange_points, queried>>
queryVars == <<routing_snapshots, ip_routes, op, rpc, collector_name, snapshot_id,
               route_collector_id, snapshot, ixp_results, exchange_points, queried, resp>>
vars == <<schedVars, queryVars>>

\* ------------------------------------------------------- schedule registry
\* scheduler.remove(name): drops every entry of that name, no-op when absent
RemoveKeepNamed(reg, name) == {e \in reg : e.name = name}
Remove(reg, name) == {e \in reg : e.name # name}

\* scheduler.add(**entry)
Add(reg, entry) == reg \cup {entry}

\* the keyword arguments built at lines 40-42 for one grabber
ScheduleEntryNoPrefix(cfg, grabber) ==
  [name |-> grabber, hour |-> cfg[grabber].hour, minute |-> cfg[grabber].minutes,
   task |-> "worker.grab_and_ingest", args |-> <<grabber>>]
ScheduleEntry(cfg, grabber) ==
  [name |-> "grab-" \o grabber, hour |-> cfg[grabber].hour, minute |-> cfg[grabber].minutes,
   task |-> "worker.grab_and_ingest", args |-> <<grabber>>]

\* whether the process accepts requests: only once startup() has returned
ServingBeforeStartup == TRUE
Serving == pc = "done"

\* ---------------------------------------------------------------- startup
InitSched ==
  /\ config \in ConfigSet
  /\ registry \in SUBSET PriorEntries
  /\ prior = registry
  /\ pc = "list"
  /\ tasks = {}
  /\ pending = {}
  /\ logged = {}
  /\ schedulerList = <<>>
  /\ runs = 1
  /\ failedAt = "none"
  /\ firstFinal = <<>>
  /\ completions = 0

\* line 30: for task in scheduler.list()
StartupList ==
  /\ pc = "list"
  /\ tasks' = registry
  /\ pc' = IF registry = {} THEN "load" ELSE "remove"
  /\ UNCHANGED <<registry, config, pending, logged, schedulerList, runs, failedAt, prior, firstFinal, completions>>
  /\ UNCHANGED queryVars

\* line 31: scheduler.remove(task.name), one iteration
StartupRemove ==
  /\ pc = "remove"
  /\ \E task \in tasks :
       /\ registry' = Remove(registry, task.name)
       /\ tasks' = tasks \ {task}
       /\ pc' = IF tasks' = {} THEN "load" ELSE "remove"
  /\ UNCHANGED <<config, pending, logged, schedulerList, runs, failedAt, prior, firstFinal, completions>>
  /\ UNCHANGED queryVars

\* lines 33-36: toml.load
StartupLoad ==
  /\ pc = "load"
  /\ pending' = DOMAIN config
  /\ pc' = IF DOMAIN config = {} THEN "relist" ELSE "add"
  /\ UNCHANGED <<registry, config, tasks, logged, schedulerList, runs, failedAt, prior, firstFinal, completions>>
  /\ UNCHANGED queryVars

\* lines 39-42: one iteration of the grabbers loop
StartupAdd ==
  /\ pc = "add"
  /\ \E grabber \in pending :
       /\ registry' = Add(registry, ScheduleEntry(config, grabber))
       /\ pending' = pending \ {grabber}
       /\ pc' = IF pending' = {} THEN "relist" ELSE "add"
  /\ UNCHANGED <<config, tasks, logged, schedulerList, runs, failedAt, prior, firstFinal, completions>>
  /\ UNCHANGED queryVars

\* lines 43-45: log the new schedule; startup() returns
StartupRelist ==
  /\ pc = "relist"
  /\ logged' = registry
  /\ pc' = "done"
  /\ firstFinal' = IF firstFinal = <<>> THEN <<registry>> ELSE firstFinal
  /\ completions' = completions + 1
  /\ UNCHANGED <<registry, config, tasks, pending, schedulerList, runs, failedAt, prior>>
  /\ UNCHANGED queryVars

\* a call of startup() raises (store unreachable, file missing, bad key);
\* startup() has no handler, so the exception leaves it and the application
\* does not start
StartupRaise ==
  /\ pc \in {"list", "remove", "load", "add", "relist"}
  /\ failedAt' = pc
  /\ pc' = "crashed"
  /\ UNCHANGED <<registry, config, tasks, pending, logged, schedulerList, runs, prior, firstFinal, completions>>
  /\ UNCHANGED queryVars

\* the process is started again: startup() runs once per process start
Restart ==
  /\ pc \in {"done", "crashed"}
  /\ runs < MaxRuns
  /\ runs' = runs + 1
  /\ pc' = "list"
  /\ failedAt' = "none"
  /\ tasks' = {}
  /\ pending' = {}
  /\ UNCHANGED <<registry, config, logged, schedulerList, prior, firstFinal, completions>>
  /\ UNCHANGED queryVars

\* lines 51-53: GET /scheduler/
GetSchedulerList ==
  /\ Serving
  /\ schedulerList' = <<registry>>
  /\ UNCHANGED <<registry, config, pc, tasks, pending, logged, runs, failedAt, prior, firstFinal, completions>>
  /\ UNCHANGED queryVars

\* ------------------------------------------------------------ query facade
\* tables the handlers only read
internet_exchange_points ==
  { [id |-> 1, name |-> "AMS-IX"], [id |-> 2, name |-> "DE-CIX"], [id |-> 3, name |-> "LINX"] }
route_collectors ==
  { [id |-> 1, name |-> "rc-ams-1", ixp_id |-> 1],
    [id |-> 2, name |-> "rc-ams-2", ixp_id |-> 1],
    [id |-> 3, name |-> "rc-dec-1", ixp_id |-> 2] }
autonomous_systems == { [number |-> 64500, name |-> "EXAMPLE-AS"] }

\* what the ingestion worker can write for one block of a table dump
Blocks == <<"10.0.0.0/8", "192.0.2.0/24">>
PathOf(block) == IF block = "10.0.0.0/8" THEN <<64501, 64500>> ELSE <<64502>>

CollectorNames == {c.name : c \in route_collectors} \cup {"rc-unknown"}
Null == "null"
NoMetadata == [created_at |-> [ts |-> 0, tzinfo |-> Null], snapshot_id |-> 0]

\* created_at.strftime('%Y-%m-%d')
Strftime(t) == t \div TicksPerDay

\* created_at.replace(tzinfo=timezone.utc)
ReplaceTzinfoUtc(t) == [ts |-> t, tzinfo |-> "UTC"]

\* .where('name', collector_name) on route_collectors
CollectorsNamed(name) == {c \in route_collectors : c.name = name}

\* .select('id', 'name').where('ixp_id', ixp_id) on route_collectors
CollectorsOfIxp(ixp_id) == {c \in route_collectors : c.ixp_id = ixp_id}

\* .where({'route_collector_id': id, 'status': 'parsed'}) on routing_snapshots
ParsedSnapshotsAnyStatus(rc_id) == {s \in routing_snapshots : s.route_collector_id = rc_id}
ParsedSnapshots(rc_id) ==
  {s \in routing_snapshots : s.route_collector_id = rc_id /\ s.status = "parsed"}

\* .select('id, created_at')
SelectIdCreatedAt(s) == [id |-> s.id, created_at |-> s.created_at]

\* .order_by('created_at', 'desc').get(): every order the database may return
OrderByCreatedAtDesc(S) ==
  { q \in [1..Cardinality(S) -> S] :
      /\ \A i, j \in 1..Cardinality(S) : i # j => q[i] # q[j]
      /\ \A i, j \in 1..Cardinality(S) : i < j => q[i].created_at >= q[j].created_at }

\* .where('route_collector_id', id).last('id'): the rows last() may return
LastByIdAnyCollector(rc_id) ==
  {s \in routing_snapshots : \A t \in routing_snapshots : t.id <= s.id}
LastById(rc_id) ==
  {s \in routing_snapshots :
     /\ s.route_collector_id = rc_id
     /\ \A t \in routing_snapshots : t.route_collector_id = rc_id => t.id <= s.id}

\* .where('id', snapshot_id).first()
SnapshotsWithId(id) == {s \in routing_snapshots : s.id = id}

\* .where_in('route_collector_id', ids).order_by('created_at', 'desc').limit(1):
\* the rows first() may return
LastUpdateOldest(ids) ==
  {s \in routing_snapshots :
     /\ s.route_collector_id \in ids
     /\ \A t \in routing_snapshots : t.route_collector_id \in ids => t.created_at >= s.created_at}
LastUpdate(ids) ==
  {s \in routing_snapshots :
     /\ s.route_collector_id \in ids
     /\ \A t \in routing_snapshots : t.route_collector_id \in ids => t.created_at <= s.created_at}

\* LEFT JOIN autonomous_systems on path->>-1 = number, projected
JoinAs(r) ==
  LET origin == r.path[Len(r.path)]
      m == {a \in autonomous_systems : a.number = origin}
  IN  [block |-> r.block, path |-> r.path, origin |-> origin,
       name |-> IF m = {} THEN Null ELSE (CHOOSE a \in m : TRUE).name]

\* the raw statement of lines 105-109 and 129-133
RoutesOfCreatedAtOnly(created_at, id) ==
  {JoinAs(r) : r \in {x \in ip_routes : x.created_at = created_at}}
RoutesOf(created_at, id) ==
  {JoinAs(r) : r \in {x \in ip_routes : x.created_at = created_at /\ x.snapshot_id = id}}

\* the steps each handler takes, in order
HandlerStepsSnapshotFirst(h) ==
  IF h = "snapshots" THEN <<"collector", "list">>
  ELSE IF h = "latest" THEN <<"collector", "latest", "routes">>
  ELSE IF h = "by_id" THEN <<"by_id", "collector", "routes">>
  ELSE <<"ixps", "loop">>
HandlerSteps(h) ==
  IF h = "snapshots" THEN <<"collector", "list">>
  ELSE IF h = "latest" THEN <<"collector", "latest", "routes">>
  ELSE IF h = "by_id" THEN <<"collector", "by_id", "routes">>
  ELSE <<"ixps", "loop">>

Step == IF op = "idle" THEN "none" ELSE HandlerSteps(op)[rpc]

NoResponse ==
  [op |-> "idle", collector_name |-> "", snapshot_id |-> 0, status |-> 0,
   detail |-> "", metadata |-> NoMetadata, routes |-> {}, snapshots |-> <<>>,
   exchange_points |-> <<>>, queried |-> <<>>]

HttpException(code, text) ==
  [op |-> op, collector_name |-> collector_name, snapshot_id |-> snapshot_id,
   status |-> code, detail |-> text, metadata |-> NoMetadata, routes |-> {},
   snapshots |-> <<>>, exchange_points |-> <<>>, queried |-> queried']

Ok(md, rts, snaps, ixps) ==
  [op |-> op, collector_name |-> collector_name, snapshot_id |-> snapshot_id,
   status |-> 200, detail |-> "", metadata |-> md, routes |-> rts,
   snapshots |-> snaps, exchange_points |-> ixps, queried |-> queried']

InitQuery ==
  /\ routing_snapshots = {}
  /\ ip_routes = {}
  /\ op = "idle"
  /\ rpc = 0
  /\ collector_name = ""
  /\ snapshot_id = 0
  /\ route_collector_id = 0
  /\ snapshot = <<>>
  /\ ixp_results = {}
  /\ exchange_points = <<>>
  /\ queried = <<>>
  /\ resp = NoResponse

\* the handler returns or raises: its locals are gone
Return ==
  /\ op' = "idle"
  /\ rpc' = 0
  /\ collector_name' = ""
  /\ snapshot_id' = 0
  /\ route_collector_id' = 0
  /\ snapshot' = <<>>
  /\ ixp_results' = {}
  /\ exchange_points' = <<>>

\* ------------------------------------------------- ingestion worker, clock
\* worker.grab_and_ingest(collector) opens a snapshot
CreateSnapshot ==
  /\ Cardinality(routing_snapshots) < MaxSnapshots
  /\ \E c \in route_collectors, t \in 1..MaxTime :
       routing_snapshots' = routing_snapshots \cup
         {[id |-> Cardinality(routing_snapshots) + 1, route_collector_id |-> c.id,
           created_at |-> t, status |-> "pending"]}
  /\ resp' = NoResponse
  /\ UNCHANGED <<ip_routes, reqVars>>
  /\ UNCHANGED schedVars

\* ... writes the next route of the dump
WriteRoute ==
  /\ \E s \in routing_snapshots :
       LET written == Cardinality({r \in ip_routes : r.snapshot_id = s.id}) IN
       /\ s.status = "pending"
       /\ written < Len(Blocks)
       /\ ip_routes' = ip_routes \cup
            {[block |-> Blocks[written + 1], path |-> PathOf(Blocks[written + 1]),
              snapshot_id |-> s.id, created_at |-> s.created_at]}
  /\ resp' = NoResponse
  /\ UNCHANGED <<routing_snapshots, reqVars>>
  /\ UNCHANGED schedVars

\* ... and marks the snapshot parsed or failed
FinishSnapshot ==
  /\ \E s \in routing_snapshots, st \in {"parsed", "failed"} :
       /\ s.status = "pending"
       /\ routing_snapshots' = (routing_snapshots \ {s}) \cup {[s EXCEPT !.status = st]}
  /\ resp' = NoResponse
  /\ UNCHANGED <<ip_routes, reqVars>>
  /\ UNCHANGED schedVars

\* ---------------------------------------------------------------- requests
\* a request arrives for one of the per-collector handlers of lines 86-141
Request ==
  /\ op = "idle"
  /\ \E h \in {"snapshots", "latest", "by_id"} :
       /\ op' = h
       /\ collector_name' \in CollectorNames
       /\ snapshot_id' \in IF h = "by_id" THEN 1..MaxSnapshots ELSE {0}
  /\ rpc' = 1
  /\ queried' = <<>>
  /\ resp' = NoResponse
  /\ UNCHANGED <<dbVars, route_collector_id, snapshot, ixp_results, exchange_points>>
  /\ UNCHANGED schedVars

\* a request arrives for GET /exchange-points/
RequestExchangePoints ==
  /\ op = "idle"
  /\ op' = "exchange_points"
  /\ rpc' = 1
  /\ queried' = <<>>
  /\ resp' = NoResponse
  /\ UNCHANGED <<dbVars, collector_name, snapshot_id, route_collector_id, snapshot,
                 ixp_results, exchange_points>>
  /\ UNCHANGED schedVars

\* lines 88-91, 97-100, 120-123: resolve the collector or raise 404
ResolveCollector ==
  /\ Step = "collector"
  /\ queried' = Append(queried, "route_collectors")
  /\ IF CollectorsNamed(collector_name) = {}
       THEN /\ resp' = HttpException(404, "Route Collector not found")
            /\ Return
       ELSE /\ \E c \in CollectorsNamed(collector_name) : route_collector_id' = c.id
            /\ rpc' = rpc + 1
            /\ resp' = NoResponse
            /\ UNCHANGED <<op, collector_name, snapshot_id, snapshot, ixp_results,
                           exchange_points>>
  /\ UNCHANGED dbVars
  /\ UNCHANGED schedVars

\* line 93: the parsed snapshots of the collector, newest first
ListSnapshots ==
  /\ Step = "list"
  /\ queried' = Append(queried, "routing_snapshots")
  /\ \E q \in OrderByCreatedAtDesc(ParsedSnapshots(route_collector_id)) :
       resp' = Ok(NoMetadata, {}, [i \in DOMAIN q |-> SelectIdCreatedAt(q[i])], <<>>)
  /\ Return
  /\ UNCHANGED dbVars
  /\ UNCHANGED schedVars

\* lines 102-104: the collector's snapshot of greatest id, or 404
ResolveLatest ==
  /\ Step = "latest"
  /\ queried' = Append(queried, "routing_snapshots")
  /\ IF LastById(route_collector_id) = {}
       THEN /\ resp' = HttpException(404, "Routing snapshot not found")
            /\ Return
       ELSE /\ \E s \in LastById(route_collector_id) : snapshot' = <<s>>
            /\ rpc' = rpc + 1
            /\ resp' = NoResponse
            /\ UNCHANGED <<op, collector_name, snapshot_id, route_collector_id, ixp_results,
                           exchange_points>>
  /\ UNCHANGED dbVars
  /\ UNCHANGED schedVars

\* lines 125-127: the snapshot of the given id, or 404
ResolveById ==
  /\ Step = "by_id"
  /\ queried' = Append(queried, "routing_snapshots")
  /\ IF SnapshotsWithId(snapshot_id) = {}
       THEN /\ resp' = HttpException(404, "Routing snapshot not found")
            /\ Return
       ELSE /\ \E s \in SnapshotsWithId(snapshot_id) : snapshot' = <<s>>
            /\ rpc' = rpc + 1
            /\ resp' = NoResponse
            /\ UNCHANGED <<op, collector_name, snapshot_id, route_collector_id, ixp_results,
                           exchange_points>>
  /\ UNCHANGED dbVars
  /\ UNCHANGED schedVars

\* lines 105-116, 129-141: fetch the routes of the resolved snapshot
FetchRoutes ==
  /\ Step = "routes"
  /\ queried' = Append(queried, "ip_routes")
  /\ resp' = Ok([created_at |-> ReplaceTzinfoUtc(snapshot[1].created_at),
                 snapshot_id |-> snapshot[1].id],
                RoutesOf(snapshot[1].created_at, snapshot[1].id), <<>>, <<>>)
  /\ Return
  /\ UNCHANGED dbVars
  /\ UNCHANGED schedVars

\* lines 57-58: read the exchange points
ExchangePointsQuery ==
  /\ Step = "ixps"
  /\ queried' = Append(queried, "internet_exchange_points")
  /\ ixp_results' = internet_exchange_points
  /\ exchange_points' = <<>>
  /\ rpc' = rpc + 1
  /\ resp' = NoResponse
  /\ UNCHANGED <<dbVars, op, collector_name, snapshot_id, route_collector_id, snapshot>>
  /\ UNCHANGED schedVars

\* the dict entry built by one iteration of the loop, lines 61-78
IxpEntry(ixp, collectors, last_update) ==
  LET base == [id |-> ixp.id, name |-> ixp.name, route_collectors |-> Cardinality(collectors)]
  IN  IF last_update = <<>> THEN base
      ELSE base @@ [last_snapshot_date |-> Strftime(last_update[1].created_at),
                    last_snapshot_id |-> last_update[1].id,
                    last_snapshot_collector_name |->
                      (CHOOSE c \in collectors : c.id = last_update[1].route_collector_id).name]

\* lines 60-78: one iteration of the loop over the exchange points
ExchangePointsLoop ==
  /\ Step = "loop"
  /\ ixp_results # {}
  /\ \E ixp \in ixp_results :
       LET collectors == CollectorsOfIxp(ixp.id)
           collector_ids == {c.id : c \in collectors}
           found == LastUpdate(collector_ids)
       IN  /\ \E last_update \in IF found = {} THEN {<<>>} ELSE {<<s>> : s \in found} :
                exchange_points' = exchange_points @@ (ixp.id :> IxpEntry(ixp, collectors, last_update))
           /\ ixp_results' = ixp_results \ {ixp}
  /\ queried' = queried \o <<"route_collectors", "routing_snapshots">>
  /\ resp' = NoResponse
  /\ UNCHANGED <<dbVars, op, rpc, collector_name, snapshot_id, route_collector_id, snapshot>>
  /\ UNCHANGED schedVars

\* line 79: return the dict
ExchangePointsReturn ==
  /\ Step = "loop"
  /\ ixp_results = {}
  /\ queried' = queried
  /\ resp' = Ok(NoMetadata, {}, <<>>, exchange_points)
  /\ Return
  /\ UNCHANGED dbVars
  /\ UNCHANGED schedVars

\* requests for routes while the worker writes snapshots and their routes
NextRoutes ==
  \/ CreateSnapshot
  \/ WriteRoute
  \/ Request
  \/ ResolveCollector
  \/ ListSnapshots
  \/ ResolveLatest
  \/ ResolveById
  \/ FetchRoutes

\* requests while the worker opens snapshots and settles their status
NextStatus ==
  \/ CreateSnapshot
  \/ FinishSnapshot
  \/ Request
  \/ ResolveCollector
  \/ ListSnapshots
  \/ ResolveLatest
  \/ ResolveById
  \/ FetchRoutes

\* GET /exchange-points/ while the worker opens snapshots and settles their status
NextIxp ==
  \/ CreateSnapshot
  \/ FinishSnapshot
  \/ RequestExchangePoints
  \/ ExchangePointsQuery
  \/ ExchangePointsLoop
  \/ ExchangePointsReturn

\* the process has started and serves requests; the schedule is left alone
InitServing ==
  /\ config = ExampleConfig
  /\ registry = {ScheduleEntry(config, g) : g \in DOMAIN config}
  /\ prior = registry
  /\ pc = "done"
  /\ tasks = {}
  /\ pending = {}
  /\ logged = registry
  /\ schedulerList = <<>>
  /\ runs = 1
  /\ failedAt = "none"
  /\ firstFinal = <<registry>>
  /\ completions = 1

\* the process has started; the tables are empty
InitStarted == InitServing /\ InitQuery

SpecRoutes == InitStarted /\ [][NextRoutes]_vars
SpecStatus == InitStarted /\ [][NextStatus]_vars
SpecIxp == InitStarted /\ [][NextIxp]_vars

NextSched ==
  \/ StartupList
  \/ StartupRemove
  \/ StartupLoad
  \/ StartupAdd
  \/ StartupRelist
  \/ StartupRaise
  \/ Restart
  \/ GetSchedulerList

\* the process boots over whatever a previous run left; no request is in flight
InitBoot == InitSched /\ InitQuery

SpecSched == InitBoot /\ [][NextSched]_vars
\* ================================================================= claims
\* the schedule the configuration calls for
Configured ==
  {[name |-> "grab-" \o c, hour |-> config[c].hour, minute |-> config[c].minutes,
    task |-> "worker.grab_and_ingest", args |-> <<c>>] : c \in DOMAIN config}

\* C1: when startup() has completed, the registry holds exactly one entry per
\* configured collector c, named "grab-" + c, with c's hour and minute and
\* args (c,), and nothing left over from a prior run.
ReconcileExact ==
  pc = "done" =>
    /\ Cardinality(registry) = Cardinality(DOMAIN config)
    /\ \A c \in DOMAIN config :
         \E e \in registry :
           /\ e.name = "grab-" \o c
           /\ e.hour = config[c].hour
           /\ e.minute = config[c].minutes
           /\ e.args = <<c>>
    /\ \A e \in registry : \E c \in DOMAIN config : e.name = "grab-" \o c

\* C1 witness: the documented example has been reconciled over a registry
\* that held a stale entry.
ReconcileExactWitness ==
  /\ pc = "done"
  /\ config = ExampleConfig
  /\ \E e \in prior : e \notin registry
  /\ Cardinality(registry) = 2

\* C2 as stated: in every reachable state the registry is either empty or
\* exactly matches the configuration.
RegistryEmptyOrConfigured ==
  registry = {} \/ registry = Configured

\* C2 amended: the registry only ever holds entries found at the first boot or
\* entries of the configuration; once startup() has completed it exactly
\* matches the configuration, and so does every list GET /scheduler/ served.
RegistryConfiguredOnceDone ==
  /\ registry \subseteq prior \cup Configured
  /\ pc = "done" => registry = Configured
  /\ schedulerList # <<>> => schedulerList[1] = Configured

\* C2 witness: the schedule list was served after a reconcile that replaced
\* stale entries by two configured ones.
RegistryConfiguredOnceDoneWitness ==
  /\ pc = "done"
  /\ schedulerList = <<registry>>
  /\ Cardinality(registry) = 2
  /\ prior # {}
  /\ prior \cap registry = {}

\* C3: a second completed run of startup() with the same configuration leaves
\* the registry equal to what the first completed run left.
ReconcileIdempotent ==
  (pc = "done" /\ completions >= 2) => registry = firstFinal[1]

\* C3 witness: startup() has completed twice, the first time over stale entries.
ReconcileIdempotentWitness ==
  /\ pc = "done"
  /\ completions = 2
  /\ DOMAIN config # {}
  /\ \E e \in prior : e \notin Configured

\* C9 as stated: a failure of the configuration load or of an add, after the
\* clear succeeded, leaves the process serving requests.
StartupFailureNotFatal ==
  failedAt \in {"load", "add"} => Serving
\* the collector a response was asked for, as a set (empty when unknown)
Asked == {c \in route_collectors : c.name = resp.collector_name}

\* C4 as stated: getSnapshotRoutes(C, id) with C existing and id the snapshot
\* of another collector answers 404 and returns no metadata and no routes.
ByIdRejectsForeignSnapshot ==
  (/\ resp.op = "by_id"
   /\ \E c \in Asked, s \in routing_snapshots :
        s.id = resp.snapshot_id /\ s.route_collector_id # c.id)
  => (resp.status = 404 /\ resp.metadata = NoMetadata /\ resp.routes = {})

\* C5: the snapshot getLatestRoutes(C) resolves is the one of greatest id among
\* all snapshots of C, whatever their status, never a snapshot of another
\* collector, and it is the one whose id the response reports.
LatestIsMaxIdOfCollector ==
  [][ /\ (op = "latest" /\ Step = "latest" /\ rpc' = rpc + 1) =>
           /\ \E c \in route_collectors :
                c.name = collector_name /\ snapshot'[1].route_collector_id = c.id
           /\ snapshot'[1] \in routing_snapshots
           /\ \A s \in routing_snapshots :
                s.route_collector_id = snapshot'[1].route_collector_id => s.id <= snapshot'[1].id
      /\ (op = "latest" /\ Step = "latest" /\ op' = "idle") =>
           \A s \in routing_snapshots, c \in route_collectors :
             c.name = collector_name => s.route_collector_id # c.id
      /\ (op = "latest" /\ Step = "routes" /\ op' = "idle") =>
           (resp'.status = 200 /\ resp'.metadata.snapshot_id = snapshot[1].id)
    ]_vars

\* C5 witness: the latest routes of a collector were returned for its second
\* snapshot, which is not parsed.
LatestIsMaxIdOfCollectorWitness ==
  /\ resp.op = "latest"
  /\ resp.status = 200
  /\ \E s, t \in routing_snapshots :
       /\ s.id = resp.metadata.snapshot_id
       /\ s.status # "parsed"
       /\ t.route_collector_id = s.route_collector_id
       /\ t.id < s.id
       /\ t.status = "parsed"

\* C6: listSnapshots(C) returns exactly the parsed snapshots of C, each once,
\* as {id, created_at}, in non-increasing created_at order.
ListSnapshotsParsedDescending ==
  (resp.op = "snapshots" /\ resp.status = 200) =>
    LET q == resp.snapshots
        parsed == {s \in routing_snapshots :
                     /\ \E c \in Asked : s.route_collector_id = c.id
                     /\ s.status = "parsed"}
    IN  /\ {q[i] : i \in DOMAIN q} = {[id |-> s.id, created_at |-> s.created_at] : s \in parsed}
        /\ Len(q) = Cardinality(parsed)
        /\ \A i, j \in DOMAIN q : i < j => q[i].created_at >= q[j].created_at

\* C6 witness: a list of one parsed snapshot was returned for a collector that
\* also has a snapshot that is not parsed.
ListSnapshotsParsedDescendingWitness ==
  /\ resp.op = "snapshots"
  /\ resp.status = 200
  /\ Len(resp.snapshots) = 1
  /\ \E s \in routing_snapshots, c \in Asked :
       s.route_collector_id = c.id /\ s.status # "parsed"

\* C7: the routes returned with metadata (created_at = T, snapshot_id = S) are
\* exactly the rows of ip_routes with created_at = T and snapshot_id = S.
RouteFetchExact ==
  (resp.op \in {"latest", "by_id"} /\ resp.status = 200) =>
    LET rows == {r \in ip_routes :
                   /\ r.created_at = resp.metadata.created_at.ts
                   /\ r.snapshot_id = resp.metadata.snapshot_id}
    IN  /\ {[block |-> x.block, path |-> x.path] : x \in resp.routes}
             = {[block |-> r.block, path |-> r.path] : r \in rows}
        /\ Cardinality(resp.routes) = Cardinality(rows)
        /\ \A x \in resp.routes : x.origin = x.path[Len(x.path)]

\* C7 witness: routes were returned for a snapshot while another snapshot with
\* the same created_at holds a row the first one lacks.
RouteFetchExactWitness ==
  /\ resp.op \in {"latest", "by_id"}
  /\ resp.status = 200
  /\ resp.routes # {}
  /\ \E r \in ip_routes :
       /\ r.created_at = resp.metadata.created_at.ts
       /\ r.snapshot_id # resp.metadata.snapshot_id
       /\ \A x \in resp.routes : x.block # r.block

\* C8: a request naming an unknown collector queries no table but
\* route_collectors, and is answered 404 "Route Collector not found".
UnknownCollectorFailsFirst ==
  /\ (op \in {"snapshots", "latest", "by_id"} /\ CollectorsNamed(collector_name) = {}) =>
       \A i \in DOMAIN queried : queried[i] = "route_collectors"
  /\ (resp.op \in {"snapshots", "latest", "by_id"} /\ Asked = {}) =>
       /\ resp.status = 404
       /\ resp.detail = "Route Collector not found"
       /\ resp.queried = <<"route_collectors">>

\* C8 witness: a request by id for an unknown collector was answered 404 though
\* a snapshot of that id exists.
UnknownCollectorFailsFirstWitness ==
  /\ resp.op = "by_id"
  /\ Asked = {}
  /\ resp.status = 404
  /\ \E s \in routing_snapshots : s.id = resp.snapshot_id

\* the entry of one exchange point agrees with the tables
IxpEntryAgrees(ixp, e) ==
  LET cs == {c \in route_collectors : c.ixp_id = ixp.id}
      ss == {s \in routing_snapshots : \E c \in cs : s.route_collector_id = c.id}
  IN  /\ e.route_collectors = Cardinality(cs)
      /\ IF ss = {}
           THEN DOMAIN e = {"id", "name", "route_collectors"}
           ELSE /\ DOMAIN e = {"id", "name", "route_collectors", "last_snapshot_date",
                               "last_snapshot_id", "last_snapshot_collector_name"}
                /\ \E s \in ss :
                     /\ s.id = e.last_snapshot_id
                     /\ \A t \in ss : t.created_at <= s.created_at
                     /\ \E c \in cs : c.id = s.route_collector_id
                                      /\ c.name = e.last_snapshot_collector_name

\* C10: each entry listExchangePoints builds counts the exchange point's
\* collectors and names a snapshot of greatest created_at among the snapshots of
\* those collectors, with its owner, or has no last_snapshot_* field when there
\* is none; the response is the dict so built.
ExchangePointsLastSnapshot ==
  [][ /\ \A ixp \in internet_exchange_points :
           (ixp.id \notin DOMAIN exchange_points /\ ixp.id \in DOMAIN exchange_points')
             => IxpEntryAgrees(ixp, exchange_points'[ixp.id])
      /\ (Step = "loop" /\ ixp_results = {} /\ op' = "idle") =>
           (resp'.status = 200 /\ resp'.exchange_points = exchange_points
            /\ DOMAIN exchange_points = {ixp.id : ixp \in internet_exchange_points})
    ]_vars

\* C10 witness: the entry of exchange point 1 names the snapshot of its second
\* collector, newer than the one of its first collector, and the entry of
\* exchange point 3, which has no collector, has no last_snapshot_* field.
ExchangePointsLastSnapshotWitness ==
  /\ DOMAIN exchange_points = {1, 3}
  /\ exchange_points[3].route_collectors = 0
  /\ "last_snapshot_id" \notin DOMAIN exchange_points[3]
  /\ "last_snapshot_id" \in DOMAIN exchange_points[1]
  /\ exchange_points[1].last_snapshot_collector_name = "rc-ams-2"
  /\ \E s, t \in routing_snapshots :
       /\ s.route_collector_id = 1
       /\ t.route_collector_id = 2
       /\ s.created_at < t.created_at
       /\ t.id = exchange_points[1].last_snapshot_id
====
